---- MODULE Spec2Model ----
(***************************************************************************)
(* The controllers of the inverted-pendulum simulator,                     *)
(* src/pendulum/controller.py: MPCController, NoController, MPCWithGPR and *)
(* BangBang.  One controller object is constructed and then its policy is  *)
(* called once per simulation tick.                                        *)
(*                                                                         *)
(* Floating-point arrays that the code computes with numpy are kept as     *)
(* terms (records naming the operation and its operands): two equal terms  *)
(* denote the same array, two different terms denote arrays that differ    *)
(* for generic data.  Physical parameters are kept by sign (-1, 0, 1).     *)
(***************************************************************************)
EXTENDS Integers, Sequences, FiniteSets

VARIABLES
    kind,           \* class of the controller object; "none" while no object exists
    pend,           \* self.pend / self.pendulum: the plant parameters M, m, l
    dt,             \* the dt handed to the constructor
    M,              \* MPCWithGPR.M (the window parameter)
    measure_n,      \* MPCWithGPR.measure_n
    priors,         \* MPCWithGPR.priors (the deque)
    tick,           \* MPCWithGPR.tick
    prior_action,   \* MPCWithGPR.prior_action (unset until the first call ends)
    T,              \* MPCController.T
    u_max,          \* MPCController.u_max
    planned_u,      \* MPCController.planned_u
    planned_state,  \* MPCController.planned_state (angle row, doubled)
    setpoint,       \* BangBang.setpoint
    magnitude,      \* BangBang.magnitude
    ret,            \* what the last operation did: returned value or raised exception
    train,          \* locals xk1, xk, y of the last steady-phase call
    hist,           \* history: the last M+2 entries appended to priors, in call order
    returned,       \* history: number of MPCWithGPR.policy calls that returned
    calls           \* history: number of MPCWithGPR.policy calls made

vars == <<kind, pend, dt, M, measure_n, priors, tick, prior_action, T, u_max,
          planned_u, planned_state, setpoint, magnitude, ret, train, hist,
          returned, calls>>

gprVars == <<M, measure_n, priors, tick, prior_action, train, hist, returned, calls>>
mpcVars == <<T, u_max, planned_u, planned_state>>
bbVars  == <<setpoint, magnitude>>
objVars == <<kind, pend, dt>>

-----------------------------------------------------------------------------
(* Bounds of the exploration. *)

\* largest window parameter handed to MPCWithGPR
MaxWindow == 2
\* number of MPCWithGPR.policy calls explored on one controller
MaxCalls == 7

\* horizons T handed to MPCController
Horizons == 1..4
\* measure_n values handed to MPCWithGPR
MeasureNs == {0, 1, 2}
\* u_max values handed to MPCController (negative: an empty input box)
UMaxVals == {-1, 0, 1, 3}
\* sign of a physical parameter or of dt
ParamVals == {-1, 0, 1}

-----------------------------------------------------------------------------
(* Python values. *)

PyNone == [t |-> "None"]
PyNum(v) == [t |-> "num", v |-> v]
PyUnset == [t |-> "unset"]

\* a float that is not finite; every other component is a small integer
NaN == 999 + 1

HasNaN(e) == \E i \in 1..Len(e) : e[i] = NaN

NoRet == [kind |-> "none"]
Returned(st, phase, action, data) ==
    [kind |-> "return", state |-> st, phase |-> phase, action |-> action, data |-> data]
Raised(st, phase, exc) ==
    [kind |-> "raise", state |-> st, phase |-> phase, exc |-> exc]

NoTrain == [xk1 |-> <<>>, xk |-> <<>>, y |-> <<>>]

-----------------------------------------------------------------------------
(* numpy arrays as terms. *)

\* np.atleast_2d(state): one row holding the state
AtLeast2d(st) == [f |-> "array", shape |-> <<1, Len(st)>>, v |-> st]
\* np.zeros(shape)
Zeros(shape) == [f |-> "zeros", shape |-> shape]
\* np.dot(x, self.A)
DotA(x) == [f |-> "dotA", x |-> x]
\* a - b
Sub(a, b) == [f |-> "sub", a |-> a, b |-> b]
\* np.dot(x, self.A) + np.dot(u, self.B.T) for one window entry (x ++ u)
LinearXk(e) == [f |-> "linear", x |-> SubSeq(e, 1, 4), u |-> e[5]]

-----------------------------------------------------------------------------
(* MPCWithGPR *)

\* the phase test written one tick early
SteadyOneEarly(t, w) == t > w

\* the phase test of policy
Steady(t, w) == t > w + 1

\* self.priors.pop(): the newest entry leaves instead of the oldest
EvictNewest(q) == SubSeq(q, 1, Len(q) - 1)

\* self.priors.popleft()
Evict(q) == Tail(q)

\* np.atleast_2d(self.priors)[:-1,:]
TrainInputs(q) == SubSeq(q, 1, Len(q) - 1)

\* the next states sliced like the inputs, [:-1] for [1:]
TrainNextUnshifted(q) == SubSeq(q, 1, Len(q) - 1)

\* np.atleast_2d(self.priors)[1:,:]
TrainNext(q) == SubSeq(q, 2, Len(q))

\* y = linear_xk - xk[:,:4], one row per training pair
Residual(xk1, xk) ==
    [i \in 1..Len(xk1) |-> Sub(LinearXk(xk1[i]), SubSeq(xk[i], 1, 4))]

\* list(state) + [action]
Entry(st, action) == st \o <<action>>

\* self.priors.appendleft(entry)
AppendEntryLeft(q, e) == <<e>> \o q

\* self.priors.append(entry)
AppendEntry(q, e) == Append(q, e)

\* the last k elements of q
LastK(q, k) == IF Len(q) <= k THEN q ELSE SubSeq(q, Len(q) - k + 1, Len(q))

\* the history after one more entry was appended
Remember(h, e, w) == LastK(Append(h, e), w + 2)

\* The Cholesky factor of the regularised Gram matrix of z.  The matrix is
\* positive definite for finite data; with a NaN in it LAPACK builds differ:
\* the factorization raises LinAlgError or returns a factor full of NaN.
create_prior_matr(z, y, l) == [f |-> "cholesky", z |-> z, y |-> y, l |-> l]

FactorOutcomes(q) ==
    IF \E i \in 1..Len(q) : HasNaN(q[i]) THEN {"LinAlgError", "ok"} ELSE {"ok"}

\* posterior mean and variance of the residual at the point (x, u)
make_prediction(L, l, z, y, x, u) ==
    [mu    |-> [f |-> "mu", x |-> x, u |-> u],
     sigma |-> [f |-> "sigma", x |-> x, u |-> u]]

\* the loop "for _ in range(self.measure_n)"; mu and sig are the variables
\* the one-step prediction assigned, and the loop assigns them again
RECURSIVE Lookahead(_, _, _, _, _, _)
Lookahead(n, lpred_n, nlpred_n, mu, sig, g) ==
    IF n = 0
    THEN [lpred_n |-> lpred_n, nlpred_n |-> nlpred_n, mu |-> mu, sig |-> sig]
    ELSE LET p == make_prediction(g.L, g.l, g.z, g.y, nlpred_n, g.u)
         IN  Lookahead(n - 1, DotA(lpred_n), Sub(DotA(nlpred_n), p.mu),
                       p.mu, p.sigma, g)

\* the diagnostics of a steady-phase call
SteadyData(st, q, pa, n) ==
    LET xk1 == TrainInputs(q)
        xk  == TrainNext(q)
        y   == Residual(xk1, xk)
        L   == create_prior_matr(xk1, y, 1)
        g   == [L |-> L, l |-> 1, z |-> xk1, y |-> y, u |-> pa]
        p   == make_prediction(L, 1, xk1, y, AtLeast2d(st), pa)
        lpred  == DotA(AtLeast2d(st))
        nlpred == Sub(lpred, p.mu)
        r   == Lookahead(n, AtLeast2d(st), AtLeast2d(st), p.mu, p.sigma, g)
    IN  [mu |-> r.mu, sigma |-> r.sig, lpred |-> lpred, nlpred |-> nlpred,
         lpred_n |-> r.lpred_n, nlpred_n |-> r.nlpred_n,
         zeros |-> Zeros(AtLeast2d(st).shape)]

\* the diagnostics of a warm-up call
WarmupData(st) ==
    LET stateshape == AtLeast2d(st).shape
    IN  [mu |-> Zeros(stateshape), sigma |-> Zeros(stateshape),
         lpred |-> Zeros(stateshape), nlpred |-> Zeros(stateshape),
         lpred_n |-> Zeros(stateshape), nlpred_n |-> Zeros(stateshape),
         zeros |-> Zeros(AtLeast2d(st).shape)]

\* states handed to MPCWithGPR.policy
GPStates == {<<0, 0, 1, 0>>, <<0, 0, 2, 0>>, <<0, 0, NaN, 0>>}

-----------------------------------------------------------------------------
(* Construction *)

Pendulums == [M : ParamVals, m : ParamVals, l : ParamVals]

\* the plant on which policy calls are explored: every parameter and dt positive
Nominal == pend = [M |-> 1, m |-> 1, l |-> 1] /\ dt = 1

\* the divisors of MPCController.__init__: pendulum.M, pendulum.l, pendulum.l*pendulum.M
ZeroDivMPC(p) == p.M = 0 \/ p.l = 0

\* the divisors of MPCWithGPR.__init__: pend.M, pend.l, pend.l*pend.m, pend.M*pend.l
ZeroDivGPR(p) == p.M = 0 \/ p.l = 0 \/ p.m = 0

\* no object exists and nothing was tried yet
Fresh == kind = "none" /\ ret = NoRet

ConstructFails(cls) ==
    /\ ret' = Raised(<<>>, cls, "ZeroDivisionError")
    /\ UNCHANGED <<objVars, gprVars, mpcVars, bbVars>>

\* MPCController.__init__(pendulum, T, dt, u_max)
MPCController_init(p, t, d, um) ==
    /\ Fresh
    /\ IF ZeroDivMPC(p)
       THEN ConstructFails("MPCController")
       ELSE /\ kind' = "MPCController"
            /\ pend' = p
            /\ dt' = d
            /\ T' = t
            /\ u_max' = um
            /\ planned_u' = <<>>
            /\ planned_state' = <<>>
            /\ ret' = Returned(<<>>, "init", PyNone, PyNone)
            /\ UNCHANGED <<gprVars, bbVars>>

\* MPCWithGPR.__init__(pend, dt, measure_n, window)
MPCWithGPR_init(p, d, n, w) ==
    /\ Fresh
    /\ IF ZeroDivGPR(p)
       THEN ConstructFails("MPCWithGPR")
       ELSE /\ kind' = "MPCWithGPR"
            /\ pend' = p
            /\ dt' = d
            /\ M' = w
            /\ measure_n' = n
            /\ priors' = <<>>
            /\ tick' = 0
            /\ ret' = Returned(<<>>, "init", PyNone, PyNone)
            /\ UNCHANGED <<prior_action, train, hist, returned, calls, mpcVars, bbVars>>

\* NoController.__init__()
NoController_init ==
    /\ Fresh
    /\ kind' = "NoController"
    /\ ret' = Returned(<<>>, "init", PyNone, PyNone)
    /\ UNCHANGED <<pend, dt, gprVars, mpcVars, bbVars>>

\* BangBang.__init__(setpoint, magnitude)
BangBang_init(sp, mag) ==
    /\ Fresh
    /\ kind' = "BangBang"
    /\ setpoint' = sp
    /\ magnitude' = mag
    /\ ret' = Returned(<<>>, "init", PyNone, PyNone)
    /\ UNCHANGED <<pend, dt, gprVars, mpcVars>>

-----------------------------------------------------------------------------
(* Calling policy: the number of arguments each class's policy takes after self *)

PolicyArity(cls) ==
    CASE cls = "MPCController" -> 3
      [] cls = "NoController"  -> 3
      [] cls = "MPCWithGPR"    -> 3
      [] cls = "BangBang"      -> 2

\* A call whose argument count does not fit the signature raises TypeError
\* before the body runs.  The simulation loop passes the same argument list on
\* every tick, so the misfit shows on the first call after construction.
PolicyBadCall(nargs) ==
    /\ kind # "none"
    /\ ret.kind = "return" /\ ret.phase = "init"
    /\ nargs # PolicyArity(kind)
    /\ ret' = [kind |-> "raise", state |-> <<>>, phase |-> "bind",
               exc |-> "TypeError", nargs |-> nargs]
    /\ UNCHANGED <<objVars, gprVars, mpcVars, bbVars>>

-----------------------------------------------------------------------------
(* MPCWithGPR.policy(state, t, dt) *)

GPRCall == kind = "MPCWithGPR" /\ Nominal /\ calls < MaxCalls

\* warm-up phase: the else branch
GPRWarmup(st) ==
    /\ GPRCall
    /\ ~Steady(tick, M)
    /\ LET action == 0
       IN  /\ prior_action' = PyNum(action)
           /\ priors' = AppendEntry(priors, Entry(st, action))
           /\ hist' = Remember(hist, Entry(st, action), M)
           /\ tick' = tick + 1
           /\ ret' = Returned(st, "warmup", PyNum(action), WarmupData(st))
    /\ returned' = returned + 1
    /\ calls' = calls + 1
    /\ UNCHANGED <<objVars, M, measure_n, train, mpcVars, bbVars>>

\* steady phase on an empty deque: popleft raises IndexError
GPRSteadyEmpty(st) ==
    /\ GPRCall
    /\ Steady(tick, M)
    /\ priors = <<>>
    /\ ret' = Raised(st, "steady", "IndexError")
    /\ calls' = calls + 1
    /\ UNCHANGED <<objVars, M, measure_n, priors, tick, prior_action, train, hist,
                   returned, mpcVars, bbVars>>

\* steady phase with fewer than two entries left after the eviction: there is
\* no training pair and the array operations raise ValueError
GPRSteadyShort(st) ==
    /\ GPRCall
    /\ Steady(tick, M)
    /\ priors # <<>>
    /\ Len(Evict(priors)) < 2
    /\ priors' = Evict(priors)
    /\ ret' = Raised(st, "steady", "ValueError")
    /\ calls' = calls + 1
    /\ UNCHANGED <<objVars, M, measure_n, tick, prior_action, train, hist,
                   returned, mpcVars, bbVars>>

\* steady phase, np.linalg.cholesky raises in create_prior_matr
GPRSteadyNotPosDef(st) ==
    /\ GPRCall
    /\ Steady(tick, M)
    /\ priors # <<>>
    /\ Len(Evict(priors)) >= 2
    /\ "LinAlgError" \in FactorOutcomes(Evict(priors))
    /\ priors' = Evict(priors)
    /\ train' = [xk1 |-> TrainInputs(priors'), xk |-> TrainNext(priors'),
                 y |-> Residual(TrainInputs(priors'), TrainNext(priors'))]
    /\ ret' = Raised(st, "steady", "LinAlgError")
    /\ calls' = calls + 1
    /\ UNCHANGED <<objVars, M, measure_n, tick, prior_action, hist,
                   returned, mpcVars, bbVars>>

\* steady phase, the call returns
GPRSteadyOk(st) ==
    /\ GPRCall
    /\ Steady(tick, M)
    /\ priors # <<>>
    /\ Len(Evict(priors)) >= 2
    /\ "ok" \in FactorOutcomes(Evict(priors))
    /\ LET q == Evict(priors)
           data == SteadyData(st, q, prior_action, measure_n)
           action == 0
       IN  /\ train' = [xk1 |-> TrainInputs(q), xk |-> TrainNext(q),
                        y |-> Residual(TrainInputs(q), TrainNext(q))]
           /\ prior_action' = PyNum(action)
           /\ priors' = AppendEntry(q, Entry(st, action))
           /\ hist' = Remember(hist, Entry(st, action), M)
           /\ tick' = tick + 1
           /\ ret' = Returned(st, "steady", PyNum(action), data)
    /\ returned' = returned + 1
    /\ calls' = calls + 1
    /\ UNCHANGED <<objVars, M, measure_n, mpcVars, bbVars>>

MPCWithGPR_policy(st) ==
    \/ GPRWarmup(st)
    \/ GPRSteadyEmpty(st)
    \/ GPRSteadyShort(st)
    \/ GPRSteadyNotPosDef(st)
    \/ GPRSteadyOk(st)

-----------------------------------------------------------------------------
(* MPCController.policy(state, t, dt)                                       *)
(*                                                                          *)
(* The objective reads only the angle x[2,T], and rows 2 and 3 of A couple  *)
(* only the angle and its rate, so the program is decided by the angle      *)
(* response of the discretised plant.  Zero-order hold of                   *)
(* theta'' = w^2 theta + b u over dt gives, for a state with angle th and   *)
(* zero angular rate,                                                       *)
(*   x[2,k] = cosh(k w dt) th                                               *)
(*            + (b/w^2) SUM_j (cosh((k-j) w dt) - cosh((k-j-1) w dt)) u[j]. *)
(* The nominal plant has cosh(w dt) = 3/2; angles are kept doubled and the  *)
(* force unit is chosen so that b/w^2 is one half, so every number below is *)
(* an integer.  Inputs are searched on the integer grid of the input box.   *)

\* 2 cosh(k w dt): the doubled angle row of A^k
Ch2[k \in 0..5] ==
    IF k = 0 THEN 2 ELSE IF k = 1 THEN 3 ELSE 3 * Ch2[k - 1] - Ch2[k - 2]

\* doubled angle component of A^j B
Resp(j) == Ch2[j + 1] - Ch2[j]

RECURSIVE SumResp(_, _, _)
SumResp(k, u, j) ==
    IF j > k THEN 0 ELSE Resp(k - j) * u[j] + SumResp(k, u, j + 1)

\* the dynamics constraints written without the term self.B @ u[:, t]
InputResponseDropped(k, u) == 0

\* the contribution of the inputs u[1..k] to the doubled angle x[2,k]:
\* the term self.B @ u[:, t] of the dynamics constraints
InputResponse(k, u) == SumResp(k, u, 1)

\* the doubled angle x[2,k] that the constraints x[:,t+1] == A x[:,t] + B u[:,t]
\* and x[:,0] == state fix
Angle2(k, st, u) == Ch2[k] * st[3] + InputResponse(k, u)

\* the weight of the input term of the objective
Lambda == 10000

\* four times the objective: sum_squares(x[2,T]) + 1e4 sum_squares(u[0,T-1])
Cost4(h, st, u) == Angle2(h, st, u) * Angle2(h, st, u) + 4 * Lambda * u[h] * u[h]

\* cp.abs(u[:, t]) <= self.u_max, on the grid
InputBox(um) == {v \in -3..3 : (IF v < 0 THEN -v ELSE v) <= um}

\* the input sequences that satisfy the constraints
Feasible(h, um) == [1..h -> InputBox(um)]

\* states handed to MPCController.policy
MPCStates == {<<0, 0, 0, 0>>, <<0, 0, 1, 0>>, <<0, 0, NaN, 0>>}

\* the feasible input sequences of least cost
ArgMin(h, um, st) ==
    LET F == Feasible(h, um)
        costs == {Cost4(h, st, u) : u \in F}
        best == CHOOSE c \in costs : \A d \in costs : c <= d
    IN  {u \in F : Cost4(h, st, u) = best}

\* ArgMin tabulated over the explored programs
ArgMinTable ==
    [h \in Horizons, um \in UMaxVals, st \in {s \in MPCStates : ~HasNaN(s)} |->
        ArgMin(h, um, st)]

\* what problem.solve may leave in u.value
Minimizers(h, um, st) == ArgMinTable[h, um, st]

\* problem.status after problem.solve
SolveStatus(h, um, st) ==
    IF Feasible(h, um) = {} THEN "infeasible" ELSE "optimal"

MPCCall == kind = "MPCController" /\ Nominal

\* problem.solve raises: the data holds a NaN and the solver cannot run
MPCSolverError(st) ==
    /\ MPCCall
    /\ HasNaN(st)
    /\ ret' = Raised(st, "solve", "SolverError")
    /\ UNCHANGED <<objVars, gprVars, mpcVars, bbVars>>

\* problem.solve ends with status infeasible: every variable's value is None
MPCInfeasible(st) ==
    /\ MPCCall
    /\ ~HasNaN(st)
    /\ SolveStatus(T, u_max, st) = "infeasible"
    /\ planned_state' = PyNone
    /\ planned_u' = PyNone
    /\ ret' = Returned(st, "infeasible", PyNone, PyNone)
    /\ UNCHANGED <<objVars, gprVars, T, u_max, bbVars>>

\* problem.solve ends with status optimal at one of the minimizers
MPCOptimal(st) ==
    /\ MPCCall
    /\ ~HasNaN(st)
    /\ SolveStatus(T, u_max, st) = "optimal"
    /\ \E u \in Minimizers(T, u_max, st) :
          /\ planned_state' = [k \in 0..T |-> Angle2(k, st, u)]
          /\ planned_u' = u
          /\ ret' = Returned(st, "optimal", PyNum(u[1]), PyNone)
    /\ UNCHANGED <<objVars, gprVars, T, u_max, bbVars>>

MPCController_policy(st) ==
    \/ MPCSolverError(st)
    \/ MPCInfeasible(st)
    \/ MPCOptimal(st)

-----------------------------------------------------------------------------
(* NoController.policy(state, t, dt) *)

NoController_policy(st) ==
    /\ kind = "NoController"
    /\ ret' = Returned(st, "policy", PyNum(0), PyNone)
    /\ UNCHANGED <<objVars, gprVars, mpcVars, bbVars>>

-----------------------------------------------------------------------------
(* BangBang.policy(state, t); angles in hundredths of a radian *)

\* the error threshold 0.1
ErrBand == 10
\* np.pi/4 = 0.785...: an integer angle is below it iff it is at most 78
QuarterPi == 78

BangBangAction(st, sp, mag) ==
    LET error == st[3] - sp
    IN  IF error > ErrBand /\ st[3] <= QuarterPi THEN mag
        ELSE IF error < -ErrBand /\ st[3] >= -QuarterPi THEN -mag
        ELSE 0

BBStates == {<<0, 0, a, 0>> : a \in {-90, -50, -10, 0, 10, 50, 90}}

BangBang_policy(st) ==
    /\ kind = "BangBang"
    /\ ret' = Returned(st, "policy", PyNum(BangBangAction(st, setpoint, magnitude)), PyNone)
    /\ UNCHANGED <<objVars, gprVars, mpcVars, bbVars>>

-----------------------------------------------------------------------------
Init ==
    /\ kind = "none"
    /\ pend = [M |-> 1, m |-> 1, l |-> 1]
    /\ dt = 1
    /\ M = 0
    /\ measure_n = 0
    /\ priors = <<>>
    /\ tick = 0
    /\ prior_action = PyUnset
    /\ T = 0
    /\ u_max = 0
    /\ planned_u = <<>>
    /\ planned_state = <<>>
    /\ setpoint = 0
    /\ magnitude = 0
    /\ ret = NoRet
    /\ train = NoTrain
    /\ hist = <<>>
    /\ returned = 0
    /\ calls = 0

Next ==
    \/ \E p \in Pendulums, d \in ParamVals, n \in MeasureNs, w \in 1..MaxWindow :
          MPCWithGPR_init(p, d, n, w)
    \/ \E p \in Pendulums, d \in ParamVals, t \in Horizons, um \in UMaxVals :
          MPCController_init(p, t, d, um)
    \/ NoController_init
    \/ \E sp \in {0, 20}, mag \in {5} : BangBang_init(sp, mag)
    \/ \E nargs \in {2, 3} : PolicyBadCall(nargs)
    \/ \E st \in GPStates : MPCWithGPR_policy(st)
    \/ \E st \in MPCStates : MPCController_policy(st)
    \/ \E st \in MPCStates : NoController_policy(st)
    \/ \E st \in BBStates : BangBang_policy(st)

Spec == Init /\ [][Next]_vars

-----------------------------------------------------------------------------
(* Properties *)

IsGPR == kind = "MPCWithGPR"

\* the last operation was a call of MPCWithGPR.policy that ran its body
GPRPolicyRan == IsGPR /\ ret.phase \in {"warmup", "steady"}

\* tick when the last MPCWithGPR.policy call began
TickBefore == IF ret.kind = "return" THEN tick - 1 ELSE tick

DataKeys == {"mu", "sigma", "lpred", "nlpred", "lpred_n", "nlpred_n", "zeros"}

ZeroState == <<0, 0, 0, 0>>

\* C1: every MPCWithGPR.policy call made while tick <= M+1, which are exactly
\* the first M+2 calls, returns action 0 and diagnostics whose seven entries
\* are all zero arrays of the (row-vector) shape of the state, whatever the
\* state passed and whatever states the earlier calls received.
C1_WarmupZero ==
    GPRPolicyRan =>
        /\ (TickBefore <= M + 1) <=> (calls <= M + 2)
        /\ TickBefore <= M + 1 =>
              /\ ret.kind = "return"
              /\ ret.action = PyNum(0)
              /\ DOMAIN ret.data = DataKeys
              /\ \A key \in DataKeys : ret.data[key] = Zeros(<<1, Len(ret.state)>>)

\* the last warm-up call, handed a NaN state after a call handed another state
C1_Witness ==
    /\ GPRPolicyRan
    /\ ret.kind = "return"
    /\ TickBefore = M + 1
    /\ HasNaN(ret.state)
    /\ priors[1] = Entry(<<0, 0, 1, 0>>, 0)

\* C2 (as claimed): in every reachable state the window holds at most
\* window+1 entries.
C2_AtMostWindowPlus1 == IsGPR => Len(priors) <= M + 1

\* C2 (amended): between calls the window holds at most window+2 entries; the
\* window the training set is built from, right after the eviction, holds at
\* most window+1; and the entries missing from the window are always the
\* oldest ones: the window is the newest part of what was appended.
C2_WindowPlus2Fifo ==
    IsGPR =>
        /\ Len(priors) <= M + 2
        /\ Len(train.xk) <= M
        /\ Len(priors) <= Len(hist)
        /\ priors = LastK(hist, Len(priors))

\* a steady call evicted an entry that differs from the one kept behind it
C2_Witness ==
    /\ GPRPolicyRan
    /\ ret.kind = "return"
    /\ ret.phase = "steady"
    /\ Len(priors) = M + 2
    /\ returned >= M + 4
    /\ priors[1] # priors[2]

C4_InvalidParametersRejected ==
    kind \in {"MPCController", "MPCWithGPR"} =>
        pend.M > 0 /\ pend.m > 0 /\ pend.l > 0 /\ dt > 0

\* C5 (as claimed): when the program of MPCController.policy is infeasible the
\* call does not return: it fails, with an error that is not the solver's
\* numerical error.
C5_InfeasibleSurfaced ==
    (kind = "MPCController" /\ ret.phase = "infeasible") =>
        ret.kind = "raise" /\ ret.exc # "SolverError"

\* C6 (as claimed): in every steady-phase call that returns, the emitted mu and
\* sigma are the posterior mean and variance at the state passed to the call,
\* so that nlpred = lpred - mu for the emitted arrays.
C6_MuAtCurrentState ==
    (GPRPolicyRan /\ ret.kind = "return" /\ ret.phase = "steady") =>
        LET p == make_prediction(create_prior_matr(train.xk1, train.y, 1), 1,
                                 train.xk1, train.y, AtLeast2d(ret.state), PyNum(0))
        IN  /\ ret.data.mu = p.mu
            /\ ret.data.sigma = p.sigma
            /\ ret.data.nlpred = Sub(ret.data.lpred, ret.data.mu)

\* C7 (as claimed): no controller's policy rejects the three arguments
\* state, t, dt.
C7_ThreeArgumentsAccepted ==
    (ret.kind = "raise" /\ ret.phase = "bind") => ret.nargs # 3

\* the last operation was MPCController.policy solving to optimality from the
\* all-zero state
MPCZeroSolved ==
    /\ kind = "MPCController"
    /\ ret.kind = "return"
    /\ ret.phase = "optimal"
    /\ ret.state = ZeroState

\* C8 (as claimed): for any horizon and any u_max >= 0, policy with the
\* all-zero state returns 0 whichever minimizer the solver ends at.
C8_ZeroStateZeroAction == MPCZeroSolved => ret.action = PyNum(0)

\* C8 (amended): with the all-zero state the plan the solver ends at has cost
\* zero, its last input is zero and its terminal angle is zero; for T <= 2 or
\* u_max = 0 that fixes the first input, and the returned action is 0.
C8_ZeroActionShortHorizon ==
    MPCZeroSolved =>
        /\ Cost4(T, ZeroState, planned_u) = 0
        /\ planned_u[T] = 0
        /\ planned_state[T] = 0
        /\ (T <= 2 \/ u_max = 0) => ret.action = PyNum(0)

\* horizon 2 with a non-trivial input box, solved from the all-zero state
C8_Witness ==
    /\ MPCZeroSolved
    /\ T = 2
    /\ u_max = 3
    /\ planned_u = <<0, 0>>

C10_FailedCallLeavesState ==
    [][(IsGPR /\ calls' = calls + 1 /\ Steady(tick, M) /\ ret'.kind = "raise") =>
          /\ priors' = priors
          /\ tick' = tick
          /\ prior_action' = prior_action
      ]_vars

====
